---- MODULE Spec2Model ----
(***************************************************************************)
(* LegacyDialog (src/src/libs/dialog/src/legacy_dialog.cpp): the dialog    *)
(* panel of the engine.  The host creates the entity (Init), changes its   *)
(* attributes (AttributeChanged), sends it messages (ProcessMessage),      *)
(* calls Realize once per frame and destroys it in the end.                *)
(*                                                                         *)
(* Every method of the class is an operator from the object (a record of   *)
(* its fields and of the collaborators it talks to) to the object after    *)
(* the call, composed in the order the code calls them.                    *)
(*                                                                         *)
(* Floats are kept exact: a scale is stored by its numerator, the          *)
(* denominator being fixed (screen size for screenScale_, 600 for          *)
(* fontScale_), and a comparison against 1e-3 is cross-multiplied.         *)
(***************************************************************************)
EXTENDS Integers, Sequences, FiniteSets, TLC

VARIABLES
    \* fields of LegacyDialog
    soundService_,          \* TRUE: a sound service exists, FALSE: nullptr
    links_,                 \* std::vector<std::string>
    formattedLinks_,        \* std::vector<LinkEntry>
    selectedLink_,
    dialogText_,
    formattedDialogText_,
    screenScale_,           \* [x, y]: numerators over ScreenSize
    fontScale_,             \* numerator over 600
    lineHeight_,
    textureLines_,
    backNeedsUpdate_,
    fadeTime_,              \* milliseconds
    interfaceTexture_,      \* texture handle
    backVertexBuffer_,      \* vertex buffer handle
    backIndexBuffer_,       \* index buffer handle
    characterName_,         \* std::string: the sequence of its characters
    headModelPath_,
    headModel_,             \* "none", "entity" or "erased entity"
    mood_,
    soundName_,
    soundState_,
    currentSound_,          \* sound handle, 0 for none
    \* collaborators
    timeScale,              \* core.SetTimeScale: numerator over UNFADE_TIME
    created,                \* the device resources RenderService created, in order
    released,               \* the device resources RenderService released, in order
    vertexData,             \* contents of the vertex buffer: one rectangle per sprite
    indexData,              \* contents of the index buffer
    headAction,             \* the action player 0 of the head's animation plays
    attrLinks,              \* AttributesPointer "Links": NoAttr or a sequence of links
    attrText,               \* AttributesPointer "Text": NoAttr or a text
    attrCurrentNode,        \* AttributesPointer "CurrentNode"
    viewport,               \* RenderService->GetViewport: [Width, Height]
    \* what the last call did (observed by the host)
    op,                     \* the last entry point called
    controls,               \* the control states the last frame sampled
    ticks,                  \* tick sounds the last call started
    events,                 \* DialogEvents the last call raised
    rebuilds,               \* UpdateBackBuffers calls of the last call
    elapsed,                \* core.GetRDeltaTime() of the last frame
    result,                 \* what Init() returned
    calls,                  \* the steps of the last call, in order
    draws,                  \* the DrawBuffer calls of the last frame, in order
    prints,                 \* the ExtPrint calls of the last frame, in order
    audio,                  \* what the sound service answered in the last frame
    speeches                \* greeting sounds the last call asked to play

vars == <<soundService_, links_, formattedLinks_, selectedLink_, dialogText_,
          formattedDialogText_, screenScale_, fontScale_, lineHeight_,
          textureLines_, backNeedsUpdate_, fadeTime_, interfaceTexture_,
          backVertexBuffer_, backIndexBuffer_, characterName_, headModelPath_,
          headModel_, timeScale, created, released, vertexData, indexData,
          attrLinks, attrText, attrCurrentNode,
          viewport, op, controls, ticks, events, rebuilds, elapsed, result, calls,
          draws, prints, mood_, soundName_, soundState_, currentSound_, headAction,
          audio, speeches>>

-----------------------------------------------------------------------------
(* Bounds and the environment the model is run in *)

\* cap of selectedLink_ (it grows without limit on an empty list)
MaxSelected == 3

\* cap of the times the host changes the texture
MaxTextures == 2

\* core.GetScreenSize()
ScreenSize == [width |-> 1600, height |-> 1200]

\* the viewports the host switches between; 1199 and 1200 differ by less than
\* 1e-3 in vertical scale and by more than 1e-3 in font scale
Viewports == {[Width |-> 1600, Height |-> 1200],
              [Width |-> 1600, Height |-> 1199],
              [Width |-> 3200, Height |-> 2400]}

\* RenderService->CharHeight(mainFont_), at font scale 1
CharHeight == [main |-> 20]

\* a text is the sequence of its words, a word is its width in pixels at font
\* scale 1; a blank is SpaceWidth wide
SpaceWidth == [px |-> 5]
NoText == <<>>
ShortText == <<300>>
LongText == <<600, 600>>

\* an attribute the tree does not hold (GetAttribute / GetAttributeClass give nullptr)
NoAttr == [exists |-> FALSE, value |-> <<>>]
Attr(v) == [exists |-> TRUE, value |-> v]
NoNode == "nullptr"

\* the links of the dialog: a text and its "go" attribute
LinkA == [text |-> ShortText, go |-> "node_a"]
LinkB == [text |-> LongText, go |-> "node_b"]
LinkC == [text |-> ShortText, go |-> "node_c"]

\* the "Links" lists of the dialog nodes the host switches between: none, an empty
\* one, and lists of one to three links, two of them of the same number of lines
LinkTrees == {NoAttr, Attr(<<>>), Attr(<<LinkA>>), Attr(<<LinkA, LinkB, LinkC>>),
              Attr(<<LinkC, LinkB>>), Attr(<<LinkB, LinkA>>)}
TextAttrs == {NoAttr, Attr(NoText), Attr(LongText)}

Abs(x) == IF x < 0 THEN -x ELSE x
Min(a, b) == IF a < b THEN a ELSE b
Max(a, b) == IF a < b THEN b ELSE a

-----------------------------------------------------------------------------
(* The object *)

\* the object and its collaborators as one record, so that the methods compose
This ==
    [soundService_ |-> soundService_, links_ |-> links_,
     formattedLinks_ |-> formattedLinks_, selectedLink_ |-> selectedLink_,
     dialogText_ |-> dialogText_, formattedDialogText_ |-> formattedDialogText_,
     screenScale_ |-> screenScale_, fontScale_ |-> fontScale_,
     lineHeight_ |-> lineHeight_, textureLines_ |-> textureLines_,
     backNeedsUpdate_ |-> backNeedsUpdate_, fadeTime_ |-> fadeTime_,
     interfaceTexture_ |-> interfaceTexture_, backVertexBuffer_ |-> backVertexBuffer_,
     backIndexBuffer_ |-> backIndexBuffer_, characterName_ |-> characterName_,
     headModelPath_ |-> headModelPath_, headModel_ |-> headModel_,
     timeScale |-> timeScale, created |-> created, released |-> released,
     vertexData |-> vertexData, indexData |-> indexData, attrLinks |-> attrLinks,
     attrText |-> attrText, attrCurrentNode |-> attrCurrentNode,
     viewport |-> viewport, op |-> op, controls |-> controls, ticks |-> ticks,
     events |-> events, rebuilds |-> rebuilds, elapsed |-> elapsed,
     result |-> result, calls |-> calls, draws |-> draws, prints |-> prints,
     mood_ |-> mood_, soundName_ |-> soundName_, soundState_ |-> soundState_,
     currentSound_ |-> currentSound_, headAction |-> headAction, audio |-> audio,
     speeches |-> speeches]

\* the variables take the fields of s
Becomes(s) ==
    /\ soundService_' = s.soundService_
    /\ links_' = s.links_
    /\ formattedLinks_' = s.formattedLinks_
    /\ selectedLink_' = s.selectedLink_
    /\ dialogText_' = s.dialogText_
    /\ formattedDialogText_' = s.formattedDialogText_
    /\ screenScale_' = s.screenScale_
    /\ fontScale_' = s.fontScale_
    /\ lineHeight_' = s.lineHeight_
    /\ textureLines_' = s.textureLines_
    /\ backNeedsUpdate_' = s.backNeedsUpdate_
    /\ fadeTime_' = s.fadeTime_
    /\ interfaceTexture_' = s.interfaceTexture_
    /\ backVertexBuffer_' = s.backVertexBuffer_
    /\ backIndexBuffer_' = s.backIndexBuffer_
    /\ characterName_' = s.characterName_
    /\ headModelPath_' = s.headModelPath_
    /\ headModel_' = s.headModel_
    /\ timeScale' = s.timeScale
    /\ created' = s.created
    /\ released' = s.released
    /\ vertexData' = s.vertexData
    /\ indexData' = s.indexData
    /\ attrLinks' = s.attrLinks
    /\ attrText' = s.attrText
    /\ attrCurrentNode' = s.attrCurrentNode
    /\ viewport' = s.viewport
    /\ op' = s.op
    /\ controls' = s.controls
    /\ ticks' = s.ticks
    /\ events' = s.events
    /\ rebuilds' = s.rebuilds
    /\ elapsed' = s.elapsed
    /\ result' = s.result
    /\ calls' = s.calls
    /\ draws' = s.draws
    /\ prints' = s.prints
    /\ mood_' = s.mood_
    /\ soundName_' = s.soundName_
    /\ soundState_' = s.soundState_
    /\ currentSound_' = s.currentSound_
    /\ headAction' = s.headAction
    /\ audio' = s.audio
    /\ speeches' = s.speeches

\* the variables are the fields of s
Starts(s) ==
    /\ soundService_ = s.soundService_
    /\ links_ = s.links_
    /\ formattedLinks_ = s.formattedLinks_
    /\ selectedLink_ = s.selectedLink_
    /\ dialogText_ = s.dialogText_
    /\ formattedDialogText_ = s.formattedDialogText_
    /\ screenScale_ = s.screenScale_
    /\ fontScale_ = s.fontScale_
    /\ lineHeight_ = s.lineHeight_
    /\ textureLines_ = s.textureLines_
    /\ backNeedsUpdate_ = s.backNeedsUpdate_
    /\ fadeTime_ = s.fadeTime_
    /\ interfaceTexture_ = s.interfaceTexture_
    /\ backVertexBuffer_ = s.backVertexBuffer_
    /\ backIndexBuffer_ = s.backIndexBuffer_
    /\ characterName_ = s.characterName_
    /\ headModelPath_ = s.headModelPath_
    /\ headModel_ = s.headModel_
    /\ timeScale = s.timeScale
    /\ created = s.created
    /\ released = s.released
    /\ vertexData = s.vertexData
    /\ indexData = s.indexData
    /\ attrLinks = s.attrLinks
    /\ attrText = s.attrText
    /\ attrCurrentNode = s.attrCurrentNode
    /\ viewport = s.viewport
    /\ op = s.op
    /\ controls = s.controls
    /\ ticks = s.ticks
    /\ events = s.events
    /\ rebuilds = s.rebuilds
    /\ elapsed = s.elapsed
    /\ result = s.result
    /\ calls = s.calls
    /\ draws = s.draws
    /\ prints = s.prints
    /\ mood_ = s.mood_
    /\ soundName_ = s.soundName_
    /\ soundState_ = s.soundState_
    /\ currentSound_ = s.currentSound_
    /\ headAction = s.headAction
    /\ audio = s.audio
    /\ speeches = s.speeches

UNFADE_TIME == 1000

\* the sound service starts nothing and plays nothing
NoAudio == [handle |-> 0, playing |-> FALSE]

NoControls == [up |-> FALSE, down |-> FALSE, action |-> FALSE]
ControlStates == [up : BOOLEAN, down : BOOLEAN, action : BOOLEAN]

\* the object as its member initialisers leave it (legacy_dialog.hpp), before Init()
Constructed ==
    [soundService_ |-> FALSE, links_ |-> <<>>, formattedLinks_ |-> <<>>,
     selectedLink_ |-> 0, dialogText_ |-> NoText, formattedDialogText_ |-> <<>>,
     screenScale_ |-> [x |-> 0, y |-> 0], fontScale_ |-> 0, lineHeight_ |-> 0,
     textureLines_ |-> 0, backNeedsUpdate_ |-> TRUE, fadeTime_ |-> 0,
     interfaceTexture_ |-> 0, backVertexBuffer_ |-> 0, backIndexBuffer_ |-> 0,
     characterName_ |-> <<>>, headModelPath_ |-> [directory |-> "", file |-> ""], headModel_ |-> "none",
     timeScale |-> UNFADE_TIME, created |-> <<>>, released |-> <<>>,
     vertexData |-> <<>>, indexData |-> <<>>, attrLinks |-> NoAttr,
     attrText |-> NoAttr, attrCurrentNode |-> NoNode,
     viewport |-> [Width |-> 0, Height |-> 0], op |-> "Init",
     controls |-> NoControls, ticks |-> 0, events |-> 0, rebuilds |-> 0,
     elapsed |-> 0, result |-> TRUE, calls |-> <<>>, draws |-> <<>>, prints |-> <<>>,
     mood_ |-> "normal", soundName_ |-> "", soundState_ |-> "SOUND_STOPPED",
     currentSound_ |-> 0, headAction |-> <<>>, audio |-> NoAudio, speeches |-> 0]

-----------------------------------------------------------------------------
(* DIALOG::AddToStringArrayLimitedByWidth: greedy word wrap *)

\* width of a word of w pixels at font scale fontScale / 600
ScaledWidth(w, fontScale) == (w * fontScale) \div 600

RECURSIVE WrapFrom(_, _, _, _, _, _, _)
WrapFrom(text, i, fontScale, limit, lines, line, width) ==
    IF i > Len(text)
    THEN IF line = <<>> THEN lines ELSE Append(lines, line)
    ELSE LET w == ScaledWidth(text[i], fontScale)
             joined == width + ScaledWidth(SpaceWidth.px, fontScale) + w
         IN  IF line = <<>>
             THEN WrapFrom(text, i + 1, fontScale, limit, lines, <<text[i]>>, w)
             ELSE IF joined > limit
             THEN WrapFrom(text, i + 1, fontScale, limit, Append(lines, line), <<text[i]>>, w)
             ELSE WrapFrom(text, i + 1, fontScale, limit, lines, Append(line, text[i]), joined)

AddToStringArrayLimitedByWidth(text, fontScale, limit) ==
    WrapFrom(text, 1, fontScale, limit, <<>>, <<>>, 0)

\* static_cast<int32_t>(570.f * (vp.Width / 640.f))
TextWidthLimit(vp) == (570 * vp.Width) \div 640

-----------------------------------------------------------------------------
(* The methods of LegacyDialog *)

\* fabs(a - b) > 1e-3f for two scales a = p / denominator, b = q / denominator
BeyondEpsilon(p, q, denominator) == Abs(p - q) * 1000 > denominator

UpdateScreenSize(s) ==
    LET hScale == s.viewport.Width
        vScale == s.viewport.Height
        rescaled ==
            IF \/ BeyondEpsilon(s.screenScale_.x, hScale, ScreenSize.width)
               \/ BeyondEpsilon(s.screenScale_.y, vScale, ScreenSize.height)
            THEN [s EXCEPT !.screenScale_ = [x |-> hScale, y |-> vScale],
                           !.backNeedsUpdate_ = TRUE]
            ELSE s
        oldFontScale == s.fontScale_
        fontScale == s.viewport.Height
    IN  IF BeyondEpsilon(fontScale, oldFontScale, 600)
        THEN [rescaled EXCEPT !.fontScale_ = fontScale,
                              !.lineHeight_ = (CharHeight.main * fontScale) \div 600]
        ELSE [rescaled EXCEPT !.fontScale_ = fontScale]

\* std::floor(static_cast<double>((text_lines * lineHeight_) / vScale) / DIALOG_LINE_HEIGHT),
\* with vScale = screenScale_.y / ScreenSize.height
DIALOG_LINE_HEIGHT == 26

\* faulty variant: the link lines do not add a tile
TextureLinesWithoutLinkTile(s) ==
    LET text_lines == Len(s.formattedDialogText_) + Len(s.formattedLinks_)
    IN  (text_lines * s.lineHeight_ * ScreenSize.height)
            \div (s.screenScale_.y * DIALOG_LINE_HEIGHT)

TextureLines(s) ==
    LET text_lines == Len(s.formattedDialogText_) + Len(s.formattedLinks_)
        lines == (text_lines * s.lineHeight_ * ScreenSize.height)
                     \div (s.screenScale_.y * DIALOG_LINE_HEIGHT)
    IN  IF s.formattedLinks_ # <<>> THEN lines + 1 ELSE lines

\* the position rectangles of SPRITE_DATA (the uv rectangles are left out)
SPRITE_DATA ==
    << [left |-> 29, top |-> 25, right |-> 147, bottom |-> 37],
       [left |-> 29, top |-> 173, right |-> 146, bottom |-> 185],
       [left |-> -39, top |-> -39, right |-> 169, bottom |-> 216],
       [left |-> 169, top |-> -39, right |-> 678, bottom |-> 79],
       [left |-> -39, top |-> 451, right |-> 678, bottom |-> 518],
       [left |-> 29, top |-> 25, right |-> 147, bottom |-> 37],
       [left |-> 29, top |-> 173, right |-> 146, bottom |-> 185],
       [left |-> -39, top |-> 479 - 67 + 39 - DIALOG_LINE_HEIGHT, right |-> 639 + 39,
        bottom |-> 479 - 67 + 39],
       [left |-> -39, top |-> 479 - 67 + 39 - DIALOG_LINE_HEIGHT, right |-> 639 + 39,
        bottom |-> 479 - 67 + 39],
       [left |-> 35, top |-> 450 - 5, right |-> 605, bottom |-> 450 + 12] >>

DIALOG_MAX_LINES == 8

SPRITE_COUNT == Len(SPRITE_DATA) + (DIALOG_MAX_LINES - 1)

\* the six indices of sprite n, n counted from 0
SpriteIndices(n) == <<n * 4 + 0, n * 4 + 2, n * 4 + 1, n * 4 + 1, n * 4 + 2, n * 4 + 3>>

RECURSIVE FillFrom(_, _)
FillFrom(n, spriteCount) ==
    IF n >= spriteCount THEN <<>> ELSE SpriteIndices(n) \o FillFrom(n + 1, spriteCount)

FillIndexBuffer(s, spriteCount) ==
    [s EXCEPT !.indexData = FillFrom(0, spriteCount)]

\* the device resources: a texture, or a buffer of so many elements
Texture(handle) == [kind |-> "texture", handle |-> handle, elements |-> 0]
VertexBuffer(handle, vertex_count) ==
    [kind |-> "vertex buffer", handle |-> handle, elements |-> vertex_count]
IndexBuffer(handle, index_count) ==
    [kind |-> "index buffer", handle |-> handle, elements |-> index_count]

\* the next free handle of a kind of resource
NextHandle(s, kind) ==
    Cardinality({i \in DOMAIN s.created : s.created[i].kind = kind}) + 1

\* faulty variant: the vertex buffer holds the sprites of SPRITE_DATA only
CreateBackBuffersOfTableSize(s) ==
    LET vertex_count == Len(SPRITE_DATA) * 4
        index_count == Len(SPRITE_DATA) * 6
        vertices == VertexBuffer(NextHandle(s, "vertex buffer"), vertex_count)
        indices == IndexBuffer(NextHandle(s, "index buffer"), index_count)
    IN  FillIndexBuffer([s EXCEPT !.backVertexBuffer_ = vertices.handle,
                                  !.backIndexBuffer_ = indices.handle,
                                  !.created = @ \o <<vertices, indices>>],
                        Len(SPRITE_DATA))

CreateBackBuffers(s) ==
    LET vertex_count == SPRITE_COUNT * 4
        index_count == SPRITE_COUNT * 6
        vertices == VertexBuffer(NextHandle(s, "vertex buffer"), vertex_count)
        indices == IndexBuffer(NextHandle(s, "index buffer"), index_count)
    IN  FillIndexBuffer([s EXCEPT !.backVertexBuffer_ = vertices.handle,
                                  !.backIndexBuffer_ = indices.handle,
                                  !.created = @ \o <<vertices, indices>>],
                        SPRITE_COUNT)

\* createSpriteMesh: the scaled rectangle of a sprite moved up by offset; x as a
\* numerator over ScreenSize.width, y over ScreenSize.height; offset is given as
\* the numerator of vScale * offset
createSpriteMesh(hScale, vScale, sprite, offset) ==
    [left |-> hScale * sprite.left, right |-> hScale * sprite.right,
     top |-> vScale * sprite.top - offset, bottom |-> vScale * sprite.bottom - offset]

\* faulty variant: one filler tile per wrapped line is written
SpriteMeshesOfTextLines(s, textureLines) ==
    LET hScale == s.screenScale_.x
        vScale == s.screenScale_.y
        text_lines == Len(s.formattedDialogText_) + Len(s.formattedLinks_)
    IN  [i \in 1..7 |-> createSpriteMesh(hScale, vScale, SPRITE_DATA[i], 0)]
        \o [i \in 1..(1 + text_lines) |->
               createSpriteMesh(hScale, vScale, SPRITE_DATA[8],
                                vScale * DIALOG_LINE_HEIGHT * (i - 1))]
        \o << createSpriteMesh(hScale, vScale, SPRITE_DATA[9],
                               vScale * DIALOG_LINE_HEIGHT * textureLines),
              createSpriteMesh(hScale, vScale, SPRITE_DATA[10],
                               Len(s.formattedLinks_) * s.lineHeight_ * ScreenSize.height) >>

\* the vertices UpdateBackBuffers writes: sprites 0 to 6, DIALOG_MAX_LINES times
\* sprite 7, each DIALOG_LINE_HEIGHT above the one before, sprite 8 moved up by
\* DIALOG_LINE_HEIGHT * textureLines, sprite 9 moved up by
\* formattedLinks_.size() * lineHeight_ / vScale
SpriteMeshes(s, textureLines) ==
    LET hScale == s.screenScale_.x
        vScale == s.screenScale_.y
    IN  [i \in 1..7 |-> createSpriteMesh(hScale, vScale, SPRITE_DATA[i], 0)]
        \o [i \in 1..DIALOG_MAX_LINES |->
               createSpriteMesh(hScale, vScale, SPRITE_DATA[8],
                                vScale * DIALOG_LINE_HEIGHT * (i - 1))]
        \o << createSpriteMesh(hScale, vScale, SPRITE_DATA[9],
                               vScale * DIALOG_LINE_HEIGHT * textureLines),
              createSpriteMesh(hScale, vScale, SPRITE_DATA[10],
                               Len(s.formattedLinks_) * s.lineHeight_ * ScreenSize.height) >>

\* faulty variant: the rebuild forgets to clear the flag
UpdateBackBuffersKeepsFlag(s) ==
    [s EXCEPT !.textureLines_ = TextureLines(s),
              !.vertexData = SpriteMeshes(s, TextureLines(s)),
              !.rebuilds = @ + 1]

UpdateBackBuffers(s) ==
    [s EXCEPT !.textureLines_ = TextureLines(s),
              !.vertexData = SpriteMeshes(s, TextureLines(s)),
              !.backNeedsUpdate_ = FALSE,
              !.rebuilds = @ + 1]

\* the LinkEntry lines of the links from the i-th on
RECURSIVE FormatLinks(_, _, _, _)
FormatLinks(tree, i, fontScale, limit) ==
    IF i > Len(tree) THEN <<>>
    ELSE LET link_texts == AddToStringArrayLimitedByWidth(tree[i].text, fontScale, limit)
         IN  [n \in 1..Len(link_texts) |-> [text |-> link_texts[n], lineIndex |-> i - 1]]
                 \o FormatLinks(tree, i + 1, fontScale, limit)

\* faulty variant: every reload marks the mesh
LinesChangedAlways(previous_lines, lines, backNeedsUpdate) == TRUE

\* faulty variant: no reload marks the mesh
LinesChangedNever(previous_lines, lines, backNeedsUpdate) == backNeedsUpdate

\* backNeedsUpdate_ after UpdateLinks / UpdateDialogText counted the lines again
LinesChanged(previous_lines, lines, backNeedsUpdate) ==
    IF previous_lines # lines THEN TRUE ELSE backNeedsUpdate

UpdateLinks(s) ==
    LET previous_link_lines == Len(s.formattedLinks_)
        links_attr == s.attrLinks
        text_width_limit == TextWidthLimit(s.viewport)
        links == IF ~links_attr.exists THEN <<>>
                 ELSE [i \in 1..Len(links_attr.value) |-> links_attr.value[i].text]
        formatted == IF ~links_attr.exists THEN <<>>
                     ELSE FormatLinks(links_attr.value, 1, s.fontScale_, text_width_limit)
    IN  [s EXCEPT !.links_ = links,
                  !.formattedLinks_ = formatted,
                  !.backNeedsUpdate_ = LinesChanged(previous_link_lines, Len(formatted), @)]

UpdateDialogText(s) ==
    LET previous_lines == Len(s.formattedDialogText_)
        text == IF s.attrText.exists THEN s.attrText.value ELSE s.dialogText_
        formatted == IF text # NoText
                     THEN AddToStringArrayLimitedByWidth(text, s.fontScale_, TextWidthLimit(s.viewport))
                     ELSE <<>>
    IN  [s EXCEPT !.dialogText_ = text,
                  !.formattedDialogText_ = formatted,
                  !.backNeedsUpdate_ = LinesChanged(previous_lines, Len(formatted), @)]

PlayTick(s) ==
    IF s.soundService_ THEN [s EXCEPT !.ticks = @ + 1] ELSE s

\* faulty variant: an up input ticks also when the selection is at the top
ControlUpTicksAlways(s, bDoUp) ==
    IF bDoUp
    THEN [PlayTick(s) EXCEPT !.selectedLink_ = IF @ > 0 THEN @ - 1 ELSE @]
    ELSE s

\* ProcessControls, the part of DlgUp, DlgUp2, DlgUp3 (bDoUp: one of them is activated)
ControlUp(s, bDoUp) ==
    IF bDoUp /\ s.selectedLink_ > 0
    THEN [PlayTick(s) EXCEPT !.selectedLink_ = @ - 1]
    ELSE s

\* faulty variant: the bound of the down step is off by one
BelowLastInclusive(selectedLink, size) ==
    IF size = 0 THEN TRUE ELSE selectedLink <= size - 1

\* selectedLink_ < links_.size() - 1, the right side a size_t: an empty list gives
\* SIZE_MAX, which every selectedLink_ >= 0 is below
BelowLast(selectedLink, size) ==
    IF size = 0 THEN TRUE ELSE selectedLink < size - 1

\* ProcessControls, the part of DlgDown, DlgDown2, DlgDown3
ControlDown(s, bDoDown) ==
    IF bDoDown /\ BelowLast(s.selectedLink_, Len(s.links_))
    THEN [PlayTick(s) EXCEPT !.selectedLink_ = @ + 1]
    ELSE s

\* links_attr->GetAttributeClass(selectedLink_): nullptr past the end
GetAttributeClass(links_attr, n) ==
    IF n + 1 \in DOMAIN links_attr.value THEN Attr(links_attr.value[n + 1]) ELSE NoAttr

\* faulty variant: a confirm leaves the selection where it is
ControlActionKeepsSelection(s, bDoAction) ==
    IF ~bDoAction THEN s
    ELSE LET ticked == PlayTick(s)
             links_attr == s.attrLinks
             selected_attr == IF ~links_attr.exists THEN NoAttr
                              ELSE GetAttributeClass(links_attr, s.selectedLink_)
         IN  IF ~selected_attr.exists THEN ticked
             ELSE [ticked EXCEPT !.attrCurrentNode = selected_attr.value.go,
                                 !.events = @ + 1]

\* ProcessControls, the part of DlgAction, DlgAction1, DlgAction2
ControlAction(s, bDoAction) ==
    IF ~bDoAction THEN s
    ELSE LET ticked == PlayTick(s)
             links_attr == s.attrLinks
             selected_attr == IF ~links_attr.exists THEN NoAttr
                              ELSE GetAttributeClass(links_attr, s.selectedLink_)
         IN  IF ~selected_attr.exists THEN ticked
             ELSE [ticked EXCEPT !.attrCurrentNode = selected_attr.value.go,
                                 !.selectedLink_ = 0,
                                 !.events = @ + 1]

ProcessControls(s, cs) ==
    ControlAction(ControlDown(ControlUp(s, cs.up), cs.down), cs.action)

\* faulty variant: the time scale is not clamped to 1
UnfadeWithoutClamp(s, deltaTime) ==
    IF s.fadeTime_ <= UNFADE_TIME
    THEN [s EXCEPT !.fadeTime_ = @ + deltaTime, !.timeScale = s.fadeTime_ + deltaTime]
    ELSE s

\* Unfade(): delayed exit from pause; deltaTime is core.GetRDeltaTime()
Unfade(s, deltaTime) ==
    IF s.fadeTime_ <= UNFADE_TIME
    THEN LET fadeTime == s.fadeTime_ + deltaTime
             timeK == IF fadeTime > UNFADE_TIME THEN UNFADE_TIME ELSE fadeTime
         IN  [s EXCEPT !.fadeTime_ = fadeTime, !.timeScale = timeK]
    ELSE s

\* static_cast<int32_t> of the float numerator / denominator, denominator > 0
Truncated(numerator, denominator) ==
    IF numerator >= 0 THEN numerator \div denominator
    ELSE -((-numerator) \div denominator)

\* RenderService->DrawBuffer of DrawBackground
DrawBackground(s, start, count) ==
    [s EXCEPT !.draws = Append(@, [texture |-> s.interfaceTexture_,
                                   vertices |-> s.backVertexBuffer_,
                                   indices |-> s.backIndexBuffer_,
                                   numVertices |-> SPRITE_COUNT * 4,
                                   startIndex |-> start * 6,
                                   primitiveCount |-> count * 2])]

\* RenderService->ExtPrint: the font, the colour and the place of a line
ExtPrint(s, font, color, x, y) ==
    [s EXCEPT !.prints = Append(@, [font |-> font, color |-> color, x |-> x, y |-> y])]

\* the step of a call the object enters next
Enter(s, name) == [s EXCEPT !.calls = Append(@, name)]

DrawHeadModel(s) ==
    IF s.headModel_ # "none" THEN Enter(s, "MODEL::ProcessStage") ELSE s

\* the name label of Realize
DrawName(s) ==
    ExtPrint(s, "nameFont_", "COLOR_NORMAL",
             Truncated(s.screenScale_.x * 168, ScreenSize.width),
             Truncated(s.screenScale_.y * 28, ScreenSize.height))

\* faulty variant: every link line is printed in the colour of the selected one
LinkColorNormal(lineIndex, selectedLink) == "COLOR_NORMAL"

LinkColor(lineIndex, selectedLink) ==
    IF lineIndex = selectedLink THEN "COLOR_NORMAL" ELSE "COLOR_LINK_UNSELECTED"

RECURSIVE DrawLinksFrom(_, _, _, _)
DrawLinksFrom(s, n, offset, line_offset) ==
    IF n > Len(s.formattedLinks_) THEN s
    ELSE LET link == s.formattedLinks_[n]
             printed ==
                 ExtPrint(s, "subFont_", LinkColor(link.lineIndex, s.selectedLink_),
                          Truncated(s.screenScale_.x * 35, ScreenSize.width),
                          Truncated(s.screenScale_.y * 450 - offset * ScreenSize.height,
                                    ScreenSize.height) + line_offset)
         IN  DrawLinksFrom(printed, n + 1, offset, line_offset + s.lineHeight_)

DrawLinks(s) ==
    IF s.formattedLinks_ # <<>>
    THEN DrawLinksFrom(s, 1, s.lineHeight_ * Len(s.formattedLinks_), 0)
    ELSE s

RECURSIVE DrawDialogTextFrom(_, _, _, _)
DrawDialogTextFrom(s, n, offset, line_offset) ==
    IF n > Len(s.formattedDialogText_) THEN s
    ELSE DrawDialogTextFrom(
             ExtPrint(s, "mainFont_", "COLOR_NORMAL",
                      Truncated(s.screenScale_.x * 35, ScreenSize.width),
                      offset + line_offset),
             n + 1, offset, line_offset + s.lineHeight_)

DrawDialogText(s) ==
    IF s.dialogText_ # NoText
    THEN DrawDialogTextFrom(
             s, 1,
             Truncated(s.screenScale_.y * (445 - s.textureLines_ * DIALOG_LINE_HEIGHT),
                       ScreenSize.height),
             0)
    ELSE s

\* what the host observes of a call starts empty
Called(s, name, cs) ==
    [s EXCEPT !.op = name, !.controls = cs, !.ticks = 0, !.events = 0, !.rebuilds = 0,
              !.elapsed = 0, !.calls = <<>>, !.draws = <<>>, !.prints = <<>>,
              !.audio = NoAudio, !.speeches = 0]

\* SetAction: the head plays the action, with the mood appended unless it is normal
SetAction(s, action) ==
    IF s.headModel_ = "none" THEN s
    ELSE LET preparedAction == IF s.mood_ # "normal" THEN <<action, "_", s.mood_>>
                               ELSE <<action>>
         IN  [s EXCEPT !.headAction = preparedAction]

\* faulty variant: the greeting is started again while it plays
StartGreetingWhilePlaying(s, answer) ==
    IF s.soundState_ \in {"SOUND_STARTING", "SOUND_PLAYING"} /\ s.soundName_ # ""
           /\ s.soundService_
    THEN LET played == [s EXCEPT !.currentSound_ = answer.handle, !.speeches = @ + 1]
         IN  IF played.currentSound_ # 0
             THEN [SetAction(played, "dialog_all") EXCEPT !.soundState_ = "SOUND_PLAYING"]
             ELSE played
    ELSE s

\* Realize, the start of the greeting; answer.handle is what SoundPlay returns
StartGreeting(s, answer) ==
    IF s.soundState_ = "SOUND_STARTING" /\ s.soundName_ # "" /\ s.soundService_
    THEN LET played == [s EXCEPT !.currentSound_ = answer.handle, !.speeches = @ + 1]
         IN  IF played.currentSound_ # 0
             THEN [SetAction(played, "dialog_all") EXCEPT !.soundState_ = "SOUND_PLAYING"]
             ELSE played
    ELSE s

\* Realize, the end of the greeting; answer.playing is what SoundIsPlaying returns
StopGreeting(s, answer) ==
    IF s.soundState_ = "SOUND_PLAYING" /\ s.soundService_ /\ ~answer.playing
    THEN [SetAction(s, "dialog_idle") EXCEPT !.soundState_ = "SOUND_STOPPED"]
    ELSE s

\* faulty variant: the body text is printed before the links
DrawTextBeforeLinks(s) ==
    LET shouldDrawDivider == s.formattedLinks_ # <<>>
        body == DrawBackground(Enter(s, "DrawBackground"), 2, 5 + s.textureLines_)
        lower == DrawBackground(Enter(body, "DrawBackground"), 7 + DIALOG_MAX_LINES,
                                IF shouldDrawDivider THEN 2 ELSE 1)
        head == DrawHeadModel(Enter(lower, "DrawHeadModel"))
        named == IF head.characterName_ # <<>> THEN DrawName(Enter(head, "ExtPrint")) ELSE head
        texted == DrawDialogText(Enter(named, "DrawDialogText"))
        linked == DrawLinks(Enter(texted, "DrawLinks"))
    IN  DrawBackground(Enter(linked, "DrawBackground"), 0, 2)

\* Realize from the first DrawBackground on
Draw(s) ==
    LET shouldDrawDivider == s.formattedLinks_ # <<>>
        body == DrawBackground(Enter(s, "DrawBackground"), 2, 5 + s.textureLines_)
        lower == DrawBackground(Enter(body, "DrawBackground"), 7 + DIALOG_MAX_LINES,
                                IF shouldDrawDivider THEN 2 ELSE 1)
        head == DrawHeadModel(Enter(lower, "DrawHeadModel"))
        named == IF head.characterName_ # <<>> THEN DrawName(Enter(head, "ExtPrint")) ELSE head
        linked == DrawLinks(Enter(named, "DrawLinks"))
        texted == DrawDialogText(Enter(linked, "DrawDialogText"))
    IN  DrawBackground(Enter(texted, "DrawBackground"), 0, 2)

\* faulty variant: the mesh is rebuilt before the controls are processed
RealizeRebuildsFirst(s, cs, deltaTime, answer) ==
    LET called == [Called(s, "Realize", cs) EXCEPT !.elapsed = deltaTime, !.audio = answer]
        unfaded == Unfade(Enter(called, "Unfade"), deltaTime)
        started == StartGreeting(unfaded, answer)
        sized == UpdateScreenSize(Enter(started, "UpdateScreenSize"))
        rebuilt == IF sized.backNeedsUpdate_
                   THEN UpdateBackBuffers(Enter(sized, "UpdateBackBuffers"))
                   ELSE sized
        controlled == ProcessControls(Enter(rebuilt, "ProcessControls"), cs)
    IN  StopGreeting(Draw(controlled), answer)

\* answer: what the sound service answers to SoundPlay and SoundIsPlaying in this
\* frame
Realize(s, cs, deltaTime, answer) ==
    LET called == [Called(s, "Realize", cs) EXCEPT !.elapsed = deltaTime, !.audio = answer]
        unfaded == Unfade(Enter(called, "Unfade"), deltaTime)
        started == StartGreeting(unfaded, answer)
        sized == UpdateScreenSize(Enter(started, "UpdateScreenSize"))
        controlled == ProcessControls(Enter(sized, "ProcessControls"), cs)
        rebuilt == IF controlled.backNeedsUpdate_
                   THEN UpdateBackBuffers(Enter(controlled, "UpdateBackBuffers"))
                   ELSE controlled
    IN  StopGreeting(Draw(rebuilt), answer)

\* the texture files the resource directory holds
TextureFiles == {"dialog/dialog.tga", "dialog/other.tga"}
DEFAULT_INTERFACE_TEXTURE == "dialog/dialog.tga"

\* RenderService->TextureCreate: a new handle, or -1 for a file that is not there
TextureCreate(s, name) ==
    IF name \in TextureFiles
    THEN LET texture == Texture(NextHandle(s, "texture"))
         IN  [s EXCEPT !.interfaceTexture_ = texture.handle, !.created = Append(@, texture)]
    ELSE [s EXCEPT !.interfaceTexture_ = -1]

\* RenderService->TextureRelease
TextureRelease(s, handle) ==
    [s EXCEPT !.released = Append(@, Texture(handle))]

\* UpdateHeadModel: the old entity is erased; a new one is created for another path
UpdateHeadModel(s, headModelPath) ==
    LET erased == [s EXCEPT !.headModel_ = IF @ = "none" THEN @ ELSE "erased entity"]
        newHeadModelPath == [directory |-> "Heads", file |-> headModelPath]
    IN  IF s.headModelPath_ # newHeadModelPath
        THEN SetAction([erased EXCEPT !.headModelPath_ = newHeadModelPath,
                                      !.headModel_ = "entity"],
                       "dialog_idle")
        ELSE erased

\* the attributes with a branch of their own
OwnAttributes == {"texture", "headModel", "mood", "greeting"}

AttributeChanged(s, attributeName, value) ==
    LET called == Called(s, "AttributeChanged", NoControls)
    IN  CASE attributeName = "texture" ->
                 TextureCreate(TextureRelease(Enter(called, "texture"),
                                              called.interfaceTexture_),
                               value)
          [] attributeName = "headModel" -> UpdateHeadModel(Enter(called, "headModel"), value)
          [] attributeName = "mood" -> [Enter(called, "mood") EXCEPT !.mood_ = value]
          [] attributeName = "greeting" ->
                 [Enter(called, "greeting") EXCEPT !.soundName_ = value,
                                                   !.soundState_ = "SOUND_STARTING"]
          [] OTHER -> UpdateDialogText(Enter(UpdateLinks(Enter(called, "UpdateLinks")),
                                             "UpdateDialogText"))

\* ::toupper of the characters the names are written in
ToUpper(c) ==
    CASE c = "j" -> "J" [] c = "o" -> "O" [] c = "d" -> "D" [] c = "e" -> "E" [] OTHER -> c

\* ProcessMessage: message 1 names the character; name and last_name are "" for a
\* missing attribute
ProcessMessage(s, code, name, last_name) ==
    LET called == Called(s, "ProcessMessage", NoControls)
        formatted == name \o <<" ">> \o last_name
    IN  IF code = 1
        THEN [called EXCEPT !.characterName_ = [i \in 1..Len(formatted) |-> ToUpper(formatted[i])]]
        ELSE called

\* Init(): the sound service may be missing; texture_attr is the attribute "texture"
InitObject(vp, sound, texture_attr) ==
    LET serviced == [Constructed EXCEPT !.soundService_ = sound, !.viewport = vp,
                                        !.timeScale = 0]
        sized == UpdateScreenSize(serviced)
        texture == IF texture_attr.exists THEN texture_attr.value
                   ELSE DEFAULT_INTERFACE_TEXTURE
    IN  [CreateBackBuffers(TextureCreate(sized, texture)) EXCEPT !.result = TRUE]

\* faulty variant: the destructor releases the texture twice
DestructorReleasesTwice(s) ==
    LET called == [Called(s, "~LegacyDialog", NoControls) EXCEPT !.timeScale = UNFADE_TIME]
    IN  IF called.interfaceTexture_ # 0
        THEN TextureRelease(TextureRelease(called, called.interfaceTexture_),
                            called.interfaceTexture_)
        ELSE called

\* ~LegacyDialog()
Destructor(s) ==
    LET called == [Called(s, "~LegacyDialog", NoControls) EXCEPT !.timeScale = UNFADE_TIME]
    IN  IF called.interfaceTexture_ # 0
        THEN TextureRelease(called, called.interfaceTexture_)
        ELSE called

-----------------------------------------------------------------------------
(* The host *)

\* the object has not been destroyed
Alive == op # "~LegacyDialog"

\* the frame clock of the specifications that do not look at the fade
NoTime == {0}

Init ==
    \E vp \in Viewports, sound \in BOOLEAN : Starts(InitObject(vp, sound, NoAttr))

\* one frame: the host calls ProcessStage(Stage::realize) with the viewport, the
\* control states and the time step of the moment
Frame(vps, css, deltas, answers) ==
    \E vp \in vps, cs \in css, deltaTime \in deltas, answer \in answers :
        LET s == Realize([This EXCEPT !.viewport = vp], cs, deltaTime, answer)
        IN  /\ Alive
            /\ s.selectedLink_ <= MaxSelected
            /\ Becomes(s)

\* the host sets the "Links" of a dialog node and the entity is notified
LinksChanged(vps, trees) ==
    \E vp \in vps, tree \in trees :
        LET s == AttributeChanged([This EXCEPT !.viewport = vp, !.attrLinks = tree],
                                  "Links", "")
        IN  Alive /\ Becomes(s)

\* the host sets the "Text" of a dialog node and the entity is notified
TextChanged(vps, texts) ==
    \E vp \in vps, text \in texts :
        LET s == AttributeChanged([This EXCEPT !.viewport = vp, !.attrText = text],
                                  "Text", "")
        IN  Alive /\ Becomes(s)

\* the host sets the attribute "mood"
MoodChanged(vps, moods) ==
    \E vp \in vps, mood \in moods :
        LET s == AttributeChanged([This EXCEPT !.viewport = vp], "mood", mood)
        IN  Alive /\ Becomes(s)

\* the host sets the attribute "greeting" to the name of a sound
GreetingChanged(vps, soundNames) ==
    \E vp \in vps, soundName \in soundNames :
        LET s == AttributeChanged([This EXCEPT !.viewport = vp], "greeting", soundName)
        IN  Alive /\ Becomes(s)

\* the host sets the attribute "texture"
TextureChanged(vps, names) ==
    \E vp \in vps, name \in names :
        LET s == AttributeChanged([This EXCEPT !.viewport = vp], "texture", name)
        IN  /\ Alive
            /\ Len(s.released) <= MaxTextures
            /\ Becomes(s)

\* the host destroys the entity
Destroy ==
    Alive /\ Becomes(Destructor(This))

\* the host sends message 0 or 1; name and lastname are the attributes of the
\* character the message names
MessageReceived(codes, characters) ==
    \E code \in codes, character \in characters :
        Alive /\ Becomes(ProcessMessage(This, code, character.name, character.lastname))

\* the host sets the attribute "headModel" to the path of another head (the same
\* path again would leave headModel_ naming an erased entity)
HeadModelChanged(paths) ==
    \E path \in paths :
        LET s == AttributeChanged(This, "headModel", path)
        IN  /\ Alive
            /\ headModelPath_ # [directory |-> "Heads", file |-> path]
            /\ Becomes(s)

\* the moods and greetings the host sets, and the answers of the sound service
Moods == {"normal", "angry"}
Greetings == {"", "hello.wav"}
Answers == [handle : {0, 7}, playing : BOOLEAN]

Next ==
    \/ Frame(Viewports, ControlStates, NoTime, Answers)
    \/ LinksChanged(Viewports, LinkTrees)
    \/ TextChanged(Viewports, TextAttrs)
    \/ MoodChanged(Viewports, Moods)
    \/ GreetingChanged(Viewports, Greetings)

Spec == Init /\ [][Next]_vars

\* The selection: the host keeps one viewport and presses every combination of keys
SelectionViewports == {[Width |-> 1600, Height |-> 1200]}

InitSelection == Init /\ viewport \in SelectionViewports

NextSelection ==
    \/ Frame(SelectionViewports, ControlStates, NoTime, {NoAudio})
    \/ LinksChanged(SelectionViewports, LinkTrees)
    \/ TextChanged(SelectionViewports, TextAttrs)
    \/ MoodChanged(SelectionViewports, {"normal"})

SpecSelection == InitSelection /\ [][NextSelection]_vars

\* The mesh: a sound service exists, the host switches between all viewports and
\* presses no key (the keys are pressed in SpecSelection)
MeshControls == {NoControls}

InitMesh == Init /\ soundService_

NextMesh ==
    \/ Frame(Viewports, MeshControls, NoTime, {NoAudio})
    \/ LinksChanged(Viewports, LinkTrees)
    \/ TextChanged(Viewports, TextAttrs)
    \/ MoodChanged(Viewports, {"normal"})

SpecMesh == InitMesh /\ [][NextMesh]_vars

\* The fade: the host keeps one viewport, lets time pass in steps of 0, 250 or 400
\* milliseconds, presses no key or a down key, and swaps the links, the mood and
\* the greeting (which no sound service answer starts)
FadeSteps == {0, 250, 400}
FadeControls == {cs \in ControlStates : ~cs.up /\ ~cs.action}
FadeTrees == {NoAttr, Attr(<<LinkA>>), Attr(<<LinkB, LinkA>>)}

InitFade == Init /\ viewport \in SelectionViewports

NextFade ==
    \/ Frame(SelectionViewports, FadeControls, FadeSteps, {NoAudio})
    \/ LinksChanged(SelectionViewports, FadeTrees)
    \/ MoodChanged(SelectionViewports, Moods)
    \/ GreetingChanged(SelectionViewports, Greetings)

SpecFade == InitFade /\ [][NextFade]_vars

\* The resources: the host creates the entity with or without a texture of its
\* own, swaps textures and links, runs frames and destroys the entity
TextureNames == {"dialog/other.tga", "dialog/missing.tga"}
TextureAttrs == {NoAttr} \cup {Attr(name) : name \in TextureNames}
ResourceTrees == {NoAttr, Attr(<<LinkA>>), Attr(<<LinkA, LinkB, LinkC>>)}

InitResources ==
    \E vp \in SelectionViewports, texture_attr \in TextureAttrs :
        Starts(InitObject(vp, TRUE, texture_attr))

NextResources ==
    \/ Frame(SelectionViewports, MeshControls, NoTime, {NoAudio})
    \/ LinksChanged(SelectionViewports, ResourceTrees)
    \/ TextureChanged(SelectionViewports, TextureNames)
    \/ Destroy

SpecResources == InitResources /\ [][NextResources]_vars

\* The drawing: the host switches between two viewports, presses no key or a down
\* key, swaps links and text, names the character and sets its head
DrawViewports == {[Width |-> 1600, Height |-> 1200], [Width |-> 3200, Height |-> 2400]}
Characters == {[name |-> <<>>, lastname |-> <<>>],
               [name |-> <<"j", "o">>, lastname |-> <<"d", "o", "e">>]}
HeadPaths == {"h_jo", "h_doe"}

InitDraw == Init /\ soundService_ /\ viewport \in SelectionViewports

NextDraw ==
    \/ Frame(DrawViewports, FadeControls, NoTime, {NoAudio})
    \/ LinksChanged(SelectionViewports, ResourceTrees)
    \/ TextChanged(SelectionViewports, TextAttrs)
    \/ MessageReceived({0, 1}, Characters)
    \/ HeadModelChanged(HeadPaths)

SpecDraw == InitDraw /\ [][NextDraw]_vars

\* The greeting: the entity has a sound service or none; the host keeps one
\* viewport, presses no key, sets greetings, moods and a head, and the sound
\* service answers as it likes
InitSound == Init /\ viewport \in SelectionViewports

NextSound ==
    \/ Frame(SelectionViewports, {NoControls}, NoTime, Answers)
    \/ GreetingChanged(SelectionViewports, Greetings)
    \/ MoodChanged(SelectionViewports, Moods)
    \/ HeadModelChanged(HeadPaths)

SpecSound == InitSound /\ [][NextSound]_vars

-----------------------------------------------------------------------------
(* The selection (SpecSelection) *)

count == Len(links_)
InRange == selectedLink_ \in 0..(count - 1)
OnlyUp(cs) == cs.up /\ ~cs.down /\ ~cs.action
OnlyDown(cs) == ~cs.up /\ cs.down /\ ~cs.action
OnlyAction(cs) == ~cs.up /\ ~cs.down /\ cs.action

\* C1: whenever the choice list is not empty, 0 <= selectedLink_ < links_.size(),
\* whatever frames and attribute changes came before
C1_SelectedInRange == links_ # <<>> => InRange

\* C2: an attribute change that reloads a different choice list leaves
\* selectedLink_ at 0
C2_ReplacementResets ==
    [][op' = "AttributeChanged" /\ links_' # links_ => selectedLink_' = 0]_vars

\* C3: on a non-empty choice list with the index in range, a frame with an up
\* input alone sets the index to max(0, index - 1), one with a down input alone
\* to min(count - 1, index + 1), and no frame takes the index out of
\* [0, count - 1]
C3_UpDownStep ==
    [][op' = "Realize" /\ links_ # <<>> /\ InRange =>
         /\ OnlyUp(controls') => selectedLink_' = Max(0, selectedLink_ - 1)
         /\ OnlyDown(controls') => selectedLink_' = Min(count - 1, selectedLink_ + 1)
         /\ selectedLink_' \in 0..(count - 1)]_vars

\* a down input alone has moved the selection to the last of three choices
C3_Witness ==
    /\ op = "Realize" /\ OnlyDown(controls)
    /\ count = 3 /\ selectedLink_ = 2 /\ ticks = 1

\* C4: while the choice list is empty, a frame with up and down inputs (and no
\* confirm) leaves selectedLink_ as it was and plays no tick
C4_EmptyListGuarded ==
    [][op' = "Realize" /\ links_ = <<>> /\ ~controls'.action =>
         selectedLink_' = selectedLink_ /\ ticks' = 0]_vars

\* C5 as stated: on a non-empty choice list with the index in range, a frame with
\* one up or one down input (and no confirm) plays the tick exactly if it changes
\* selectedLink_
C5_TickIffMoved ==
    [][/\ op' = "Realize" /\ (OnlyUp(controls') \/ OnlyDown(controls'))
       /\ links_ # <<>> /\ InRange
       => (ticks' > 0 <=> selectedLink_' # selectedLink_)]_vars

\* C5 as amended: with a sound service such a frame plays one tick exactly if it
\* changes selectedLink_; without one it plays none; in both cases no tick is
\* played when the index stays, as for up at 0 and down at the last index
C5_TickIffMovedAndAudible ==
    [][op' = "Realize" /\ (OnlyUp(controls') \/ OnlyDown(controls')) =>
         /\ soundService_ => (ticks' = 1 <=> selectedLink_' # selectedLink_)
         /\ soundService_ => ticks' \in {0, 1}
         /\ ~soundService_ => ticks' = 0
         /\ selectedLink_' = selectedLink_ => ticks' = 0]_vars

\* an up input alone at index 0 of a non-empty list, a sound service present:
\* nothing moved, no tick
C5_Witness ==
    /\ op = "Realize" /\ OnlyUp(controls) /\ soundService_
    /\ count = 3 /\ selectedLink_ = 0 /\ ticks = 0

\* C6: a confirm input alone, on a non-empty choice list with the index i in
\* range, writes the "go" of choice i to CurrentNode, raises one DialogEvent and
\* leaves selectedLink_ at 0
C6_ConfirmEmitsTarget ==
    [][op' = "Realize" /\ OnlyAction(controls') /\ links_ # <<>> /\ InRange =>
         /\ attrCurrentNode' = attrLinks.value[selectedLink_ + 1].go
         /\ events' = 1
         /\ selectedLink_' = 0]_vars

\* the third of three choices was confirmed: its target is the current node
C6_Witness ==
    /\ op = "Realize" /\ OnlyAction(controls) /\ events = 1
    /\ count = 3 /\ attrCurrentNode = LinkC.go /\ selectedLink_ = 0

\* C7: a confirm input alone while the choice list is empty writes no
\* CurrentNode, raises no DialogEvent, leaves selectedLink_ and plays no tick
C7_ConfirmOnEmptyIsNoOp ==
    [][op' = "Realize" /\ OnlyAction(controls') /\ links_ = <<>> =>
         /\ attrCurrentNode' = attrCurrentNode
         /\ events' = 0
         /\ selectedLink_' = selectedLink_
         /\ ticks' = 0]_vars

-----------------------------------------------------------------------------
(* The mesh and its invalidation (SpecMesh) *)

bodyLines == Len(formattedDialogText_)
linkLines == Len(formattedLinks_)

\* the call changed the number of wrapped body lines or of wrapped link lines
LineCountsChanged == bodyLines' # bodyLines \/ linkLines' # linkLines

\* the scale of viewport vp is more than 1e-3 away from the scale of the mesh
ScaleChangedTo(vp) ==
    \/ Abs(vp.Width - screenScale_.x) * 1000 > ScreenSize.width
    \/ Abs(vp.Height - screenScale_.y) * 1000 > ScreenSize.height

\* C8: a frame rebuilds the mesh once at most and leaves it clean; a frame that
\* follows a frame of the same viewport rebuilds nothing; and an attribute change
\* that keeps both line counts leaves backNeedsUpdate_ as it was: so frames
\* at one scale and constant line counts rebuild on the first of them at most
C8_RebuildAtMostOnce ==
    [][/\ op' = "Realize" =>
            /\ rebuilds' <= 1
            /\ ~backNeedsUpdate_'
            /\ (op = "Realize" /\ viewport' = viewport) => rebuilds' = 0
       /\ (op' = "AttributeChanged" /\ ~LineCountsChanged) =>
            backNeedsUpdate_' = backNeedsUpdate_]_vars

\* a frame with body text and links on the panel that rebuilt nothing
C8_Witness ==
    /\ op = "Realize" /\ rebuilds = 0 /\ ~backNeedsUpdate_
    /\ bodyLines > 0 /\ linkLines > 0

\* C9: an attribute change marks the mesh dirty exactly if it changes the number
\* of body lines or of link lines; a frame rebuilds, once, exactly if the mesh
\* was marked or the scale moved by more than 1e-3, and leaves the mesh clean;
\* nothing else marks it
C9_DirtyExactlyOnChange ==
    [][/\ op' = "AttributeChanged" =>
            (backNeedsUpdate_' <=> (backNeedsUpdate_ \/ LineCountsChanged))
       /\ op' = "Realize" =>
            /\ rebuilds' = IF backNeedsUpdate_ \/ ScaleChangedTo(viewport') THEN 1 ELSE 0
            /\ ~backNeedsUpdate_']_vars

\* the frame after a change of the line counts rebuilt the mesh once
C9_Witness ==
    /\ op = "Realize" /\ rebuilds = 1 /\ ~backNeedsUpdate_
    /\ bodyLines > 0 /\ linkLines > 0 /\ textureLines_ > 0

\* C10 as stated: every attribute change that reloads a different choice list
\* marks the mesh dirty, and a frame that finds it dirty rebuilds it
C10_ReplacementRebuilds ==
    [][/\ (op' = "AttributeChanged" /\ links_' # links_) => backNeedsUpdate_'
       /\ (op' = "Realize" /\ backNeedsUpdate_) => rebuilds' = 1]_vars

\* C10 as amended: an attribute change that reloads a different choice list marks
\* the mesh dirty if the number of wrapped link lines differs from the one
\* before; if neither line count differs it leaves backNeedsUpdate_ as it was;
\* a frame that finds the mesh dirty rebuilds it once
C10_ReplacementRebuildsOnNewCount ==
    [][/\ (op' = "AttributeChanged" /\ links_' # links_) =>
            /\ linkLines' # linkLines => backNeedsUpdate_'
            /\ ~LineCountsChanged => backNeedsUpdate_' = backNeedsUpdate_
       /\ (op' = "Realize" /\ backNeedsUpdate_) => rebuilds' = 1]_vars

\* another choice list of as many lines was loaded and the mesh stayed clean
C10_Witness ==
    /\ op = "AttributeChanged" /\ ~backNeedsUpdate_
    /\ links_ = <<LinkB.text, LinkA.text>> /\ linkLines = 3

-----------------------------------------------------------------------------
(* The selection and the mesh (SpecSelection) *)

\* the link lines a frame printed, and the prints without their colours
LinkPrints == SelectSeq(prints, LAMBDA p : p.font = "subFont_")
Places(ps) == [i \in DOMAIN ps |-> [font |-> ps[i].font, x |-> ps[i].x, y |-> ps[i].y]]

\* C11: a frame that finds the mesh clean and the scale as it was, whatever keys
\* are pressed (up, down, confirm), leaves backNeedsUpdate_ clear, rebuilds
\* nothing and leaves the vertex data and textureLines_ as they were; it prints
\* the lines of the selected link in COLOR_NORMAL and all others in
\* COLOR_LINK_UNSELECTED; and after a frame of the same viewport it issues the
\* same draws and prints at the same places
C11_SelectionLeavesMesh ==
    [][op' = "Realize" /\ ~backNeedsUpdate_ /\ ~ScaleChangedTo(viewport') =>
         /\ ~backNeedsUpdate_' /\ rebuilds' = 0
         /\ vertexData' = vertexData /\ textureLines_' = textureLines_
         /\ Len(LinkPrints') = linkLines'
         /\ \A n \in 1..linkLines' :
                LinkPrints'[n].color =
                    IF formattedLinks_'[n].lineIndex = selectedLink_'
                    THEN "COLOR_NORMAL" ELSE "COLOR_LINK_UNSELECTED"
         /\ (op = "Realize" /\ viewport' = viewport) =>
                draws' = draws /\ Places(prints') = Places(prints)]_vars

\* a down key moved the selection to the second of three links: no rebuild, and
\* the lines of the second link alone are printed in COLOR_NORMAL
C11_Witness ==
    /\ op = "Realize" /\ OnlyDown(controls) /\ ticks = 1
    /\ count = 3 /\ selectedLink_ = 1 /\ rebuilds = 0 /\ vertexData # <<>>
    /\ [n \in 1..4 |-> LinkPrints[n].color] =
           <<"COLOR_LINK_UNSELECTED", "COLOR_NORMAL", "COLOR_NORMAL", "COLOR_LINK_UNSELECTED">>

-----------------------------------------------------------------------------
(* The wrapped lines (SpecMesh) *)

\* the wrap of the raw content at the font scale and the width limit of the moment
CurrentBodyWrap ==
    IF dialogText_ # NoText
    THEN AddToStringArrayLimitedByWidth(dialogText_, fontScale_, TextWidthLimit(viewport))
    ELSE <<>>
CurrentLinksWrap ==
    IF attrLinks.exists
    THEN FormatLinks(attrLinks.value, 1, fontScale_, TextWidthLimit(viewport))
    ELSE <<>>

\* C12: at every frame the wrapped body lines and link lines are the wrap of the
\* raw text and choices at the width limit of the viewport and the font scale of
\* that frame
C12_WrapIsCurrent ==
    op = "Realize" =>
        formattedDialogText_ = CurrentBodyWrap /\ formattedLinks_ = CurrentLinksWrap

-----------------------------------------------------------------------------
(* The fade (SpecFade) *)

\* C13: fadeTime_ is never decreased, by no frame and no input, and while it is
\* at most UNFADE_TIME a frame adds the elapsed milliseconds to it; after every
\* frame the time scale is min(1, fadeTime_ / 1000); the time scale never
\* decreases and, once 1, stays 1
C13_UnfadeRamp ==
    [][/\ fadeTime_' >= fadeTime_
       /\ timeScale' >= timeScale
       /\ timeScale = UNFADE_TIME => timeScale' = UNFADE_TIME
       /\ op' = "Realize" =>
            /\ fadeTime_ <= UNFADE_TIME => fadeTime_' = fadeTime_ + elapsed'
            /\ timeScale' = Min(UNFADE_TIME, fadeTime_')
       /\ op' # "Realize" => fadeTime_' = fadeTime_ /\ timeScale' = timeScale]_vars

\* the fifth frame of 250 ms: the counter is at 1250 and the time scale is 1
C13_Witness ==
    op = "Realize" /\ elapsed = 250 /\ fadeTime_ = 1250 /\ timeScale = UNFADE_TIME

-----------------------------------------------------------------------------
(* The device resources (SpecResources) *)

\* the resources of a kind the render service created
Created(kind) == {i \in DOMAIN created : created[i].kind = kind}

\* how often the render service released resource r
Releases(r) == Cardinality({i \in DOMAIN released : released[i] = r})

\* one vertex buffer of (10 + 7) * 4 vertices and one index buffer of
\* (10 + 7) * 6 indices exist, and the index buffer holds 0,2,1 / 1,2,3 per quad
BuffersAsCreated ==
    /\ Cardinality(Created("vertex buffer")) = 1
    /\ Cardinality(Created("index buffer")) = 1
    /\ \A i \in Created("vertex buffer") : created[i].elements = (10 + 7) * 4
    /\ \A i \in Created("index buffer") : created[i].elements = (10 + 7) * 6
    /\ Len(indexData) = (10 + 7) * 6
    /\ \A n \in 0..(10 + 7 - 1) :
           SubSeq(indexData, 6 * n + 1, 6 * n + 6) =
               <<4 * n, 4 * n + 2, 4 * n + 1, 4 * n + 1, 4 * n + 2, 4 * n + 3>>

\* C14: Init leaves one vertex buffer of (10 + 7) * 4 vertices and one index
\* buffer of (10 + 7) * 6 indices, filled with 0,2,1 / 1,2,3 per quad; no later
\* call creates a buffer, changes a buffer handle or writes an index, and a
\* rebuild writes the vertices of all 17 quads
C14_BuffersAllocatedOnce ==
    /\ BuffersAsCreated
    /\ [][/\ BuffersAsCreated'
          /\ indexData' = indexData
          /\ backVertexBuffer_' = backVertexBuffer_
          /\ backIndexBuffer_' = backIndexBuffer_
          /\ rebuilds' > 0 => Len(vertexData') = 10 + 7]_vars

\* a frame rebuilt the mesh for a panel of links, in the buffers of Init
C14_Witness ==
    /\ op = "Realize" /\ rebuilds = 1 /\ linkLines = 4
    /\ Len(vertexData) = 17 /\ Len(indexData) = 102

\* C15: once the entity is destroyed, every texture and buffer the render service
\* created for it has been released exactly once
C15_ReleasedExactlyOnce ==
    op = "~LegacyDialog" => \A i \in DOMAIN created : Releases(created[i]) = 1

\* C16: an Init that could not create its interface texture returns false
C16_InitReportsFailure ==
    (op = "Init" /\ Created("texture") = {}) => ~result

-----------------------------------------------------------------------------
(* The size and the place of the mesh (SpecMesh) *)

\* the vertices the mesh holds: four per quad written
MeshVertexCount == 4 * Len(vertexData)

\* C17 as stated: at a frame of a panel with 2 wrapped body lines and no link, the
\* mesh holds (10 + 2) * 4 = 48 vertices
C17_VertexCountOfTwoLines ==
    (op = "Realize" /\ bodyLines = 2 /\ linkLines = 0) => MeshVertexCount = (10 + 2) * 4

\* C17 as amended: at every frame, and so at one with 2 wrapped body lines and no
\* link, the mesh holds (10 + 7) * 4 = 68 vertices and every draw names 68
\* vertices; with 2 body lines and no link the first draw takes 5 + textureLines_
\* quads from quad 2 and the second the top tile alone
C17_VertexCountIsFixed ==
    op = "Realize" =>
        /\ MeshVertexCount = (10 + 7) * 4
        /\ \A i \in DOMAIN draws : draws[i].numVertices = (10 + 7) * 4
        /\ (bodyLines = 2 /\ linkLines = 0) =>
               /\ draws[1].startIndex = 2 * 6
               /\ draws[1].primitiveCount = (5 + textureLines_) * 2
               /\ draws[2].startIndex = (7 + 8) * 6
               /\ draws[2].primitiveCount = 2

\* a frame of 2 body lines and no link: 3 filler tiles are drawn of the 8 in
\* the mesh
C17_Witness ==
    /\ op = "Realize" /\ bodyLines = 2 /\ linkLines = 0 /\ rebuilds = 1
    /\ textureLines_ = 3 /\ draws[1].primitiveCount = 16 /\ Len(vertexData) = 17

\* C18: a rebuild sets textureLines_ to
\* floor(((bodyLines + linkLines) * lineHeight_ / vScale) / 26), plus 1 exactly
\* if there is a link line, writes the top tile 26 * textureLines_ above its
\* place in SPRITE_DATA and the divider linkLines * lineHeight_ / vScale above
\* its place (both then scaled by vScale = screenScale_.y / ScreenSize.height)
C18_RebuildPlacesTiles ==
    [][rebuilds' > 0 =>
         LET sy == screenScale_'.y
             lines == ((bodyLines' + linkLines') * lineHeight_' * ScreenSize.height)
                          \div (sy * 26)
             top == SPRITE_DATA[9]
             divider == SPRITE_DATA[10]
         IN  /\ textureLines_' = lines + (IF linkLines' > 0 THEN 1 ELSE 0)
             /\ vertexData'[16].top = sy * (top.top - 26 * textureLines_')
             /\ vertexData'[16].bottom = sy * (top.bottom - 26 * textureLines_')
             /\ vertexData'[17].top =
                    sy * divider.top - linkLines' * lineHeight_' * ScreenSize.height
             /\ vertexData'[17].bottom =
                    sy * divider.bottom - linkLines' * lineHeight_' * ScreenSize.height]_vars

\* a rebuild for 2 body lines and 4 link lines of 40 pixels at scale 1:
\* floor(240 / 26) + 1 = 10 tiles
C18_Witness ==
    /\ op = "Realize" /\ rebuilds = 1 /\ bodyLines = 2 /\ linkLines = 4
    /\ lineHeight_ = 40 /\ screenScale_.y = ScreenSize.height /\ textureLines_ = 10
    /\ vertexData[16].top = ScreenSize.height * (425 - 260)
    /\ vertexData[17].top = ScreenSize.height * (445 - 160)

-----------------------------------------------------------------------------
(* The order of a frame (SpecDraw) *)

\* the places of a step in the calls of the last frame
StepsNamed(name) == {i \in DOMAIN calls : calls[i] = name}

\* every step named first comes before every step named second
Before(first, second) ==
    \A i \in StepsNamed(first), j \in StepsNamed(second) : i < j

\* the calls of the last frame from the first draw on
DrawCalls ==
    LET first == CHOOSE i \in StepsNamed("DrawBackground") :
                     \A j \in StepsNamed("DrawBackground") : i <= j
    IN  SubSeq(calls, first, Len(calls))

\* C19 as stated: in every frame the scale update comes before the rebuild, the
\* rebuild before the processing of the controls, and that before any draw
C19_RebuildBeforeControls ==
    op = "Realize" =>
        /\ Before("UpdateScreenSize", "UpdateBackBuffers")
        /\ Before("UpdateBackBuffers", "ProcessControls")
        /\ Before("ProcessControls", "DrawBackground")

\* C19 as amended: every frame runs Unfade, the scale update and the processing
\* of the controls, in this order, then the rebuild exactly if the mesh is marked
\* by then, and draws only after that
C19_ControlsBeforeRebuild ==
    op = "Realize" =>
        /\ SubSeq(calls, 1, 3) = <<"Unfade", "UpdateScreenSize", "ProcessControls">>
        /\ calls[4] = IF rebuilds > 0 THEN "UpdateBackBuffers" ELSE "DrawBackground"
        /\ Before("UpdateScreenSize", "UpdateBackBuffers")
        /\ Before("ProcessControls", "UpdateBackBuffers")
        /\ Before("UpdateBackBuffers", "DrawBackground")
        /\ Before("ProcessControls", "DrawBackground")

\* a frame with a down key that moved the selection among three links and then
\* rebuilt the mesh
C19_Witness ==
    /\ op = "Realize" /\ OnlyDown(controls) /\ ticks = 1
    /\ count = 3 /\ selectedLink_ = 1 /\ rebuilds = 1
    /\ SubSeq(calls, 1, 5) = <<"Unfade", "UpdateScreenSize", "ProcessControls",
                                "UpdateBackBuffers", "DrawBackground">>

\* C20: every frame draws in this order: the body tiles (5 + textureLines_ quads
\* from quad 2), the lower frame (the top tile, and the divider exactly if there
\* is a link line), the head model, the name label exactly if characterName_ is
\* not empty, the link lines, the body text lines, the two head overlay tiles
C20_DrawOrder ==
    op = "Realize" =>
        /\ DrawCalls =
               <<"DrawBackground", "DrawBackground", "DrawHeadModel">>
               \o (IF headModel_ # "none" THEN <<"MODEL::ProcessStage">> ELSE <<>>)
               \o (IF characterName_ # <<>> THEN <<"ExtPrint">> ELSE <<>>)
               \o <<"DrawLinks", "DrawDialogText", "DrawBackground">>
        /\ [i \in DOMAIN draws |-> <<draws[i].startIndex, draws[i].primitiveCount>>] =
               << <<2 * 6, (5 + textureLines_) * 2>>,
                  <<(7 + 8) * 6, IF linkLines > 0 THEN 2 * 2 ELSE 1 * 2>>,
                  <<0, 2 * 2>> >>
        /\ [i \in DOMAIN prints |-> prints[i].font] =
               (IF characterName_ # <<>> THEN <<"nameFont_">> ELSE <<>>)
               \o [i \in 1..linkLines |-> "subFont_"]
               \o [i \in 1..bodyLines |-> "mainFont_"]

\* a frame of a named character with a head, 4 link lines and 2 body lines
C20_Witness ==
    /\ op = "Realize" /\ headModel_ = "entity" /\ linkLines = 4 /\ bodyLines = 2
    /\ characterName_ = <<"J", "O", " ", "D", "O", "E">>
    /\ Len(prints) = 7 /\ draws[2].primitiveCount = 4
    /\ Len(calls) >= 10

-----------------------------------------------------------------------------
(* The mesh at the time it is drawn (SpecMesh) *)

\* the quads a draw addresses: first and one past the last
FirstQuad(draw) == draw.startIndex \div 6
EndQuad(draw) == FirstQuad(draw) + draw.primitiveCount \div 2

\* C21: every DrawBackground of a frame addresses quads of the 17 of the mesh
\* only, and the body draw ends before quad 15, the top tile: textureLines_ is
\* at most 8
C21_DrawsInsideMesh ==
    op = "Realize" =>
        /\ \A i \in DOMAIN draws : EndQuad(draws[i]) <= 10 + 7
        /\ EndQuad(draws[1]) <= 7 + 8
        /\ textureLines_ <= 8

\* textureLines_ and the places of the top tile and of the divider as
\* UpdateBackBuffers would set them from the fields of the moment
LayoutIsCurrent ==
    LET sy == screenScale_.y
        lines == ((bodyLines + linkLines) * lineHeight_ * ScreenSize.height)
                     \div (sy * DIALOG_LINE_HEIGHT)
    IN  /\ textureLines_ = lines + (IF linkLines > 0 THEN 1 ELSE 0)
        /\ vertexData[16].top = sy * (SPRITE_DATA[9].top - DIALOG_LINE_HEIGHT * textureLines_)
        /\ vertexData[17].top =
               sy * SPRITE_DATA[10].top - linkLines * lineHeight_ * ScreenSize.height

\* C22: when a frame has drawn, the mesh is not marked and textureLines_ and the
\* tile offsets of the vertex data are what the layout formula gives for the
\* body lines, link lines, line height and vertical scale of that frame
C22_MeshCurrentAtDraw ==
    op = "Realize" => ~backNeedsUpdate_ /\ LayoutIsCurrent

-----------------------------------------------------------------------------
(* The greeting (SpecSound) *)

\* the action SetAction gives the head for the mood of the moment
Prepared(action) == IF mood_ # "normal" THEN <<action, "_", mood_>> ELSE <<action>>

\* the frame finds the greeting waiting to be started and can start it
Startable == soundState_ = "SOUND_STARTING" /\ soundName_ # "" /\ soundService_

\* C23: a change of the attribute greeting sets soundState_ to SOUND_STARTING and
\* nothing but a frame changes it otherwise; a frame asks for the greeting to be
\* played, once, exactly if it finds SOUND_STARTING, a name and a sound service,
\* so never in SOUND_PLAYING or SOUND_STOPPED; a handle other than 0 makes it
\* SOUND_PLAYING and the head play dialog_all; from SOUND_PLAYING (also that of
\* the same frame) a poll that answers "not playing" makes it SOUND_STOPPED and
\* the head play dialog_idle; no frame leads back to SOUND_STARTING
C23_GreetingStateMachine ==
    [][/\ (op' = "AttributeChanged" /\ calls' = <<"greeting">>) =>
            soundState_' = "SOUND_STARTING"
       /\ (op' # "Realize" /\ calls' # <<"greeting">>) => soundState_' = soundState_
       /\ op' = "Realize" =>
            LET started == Startable /\ audio'.handle # 0
                playing == started \/ soundState_ = "SOUND_PLAYING"
                stopped == playing /\ soundService_ /\ ~audio'.playing
            IN  /\ speeches' = IF Startable THEN 1 ELSE 0
                /\ soundState_' = IF stopped THEN "SOUND_STOPPED"
                                  ELSE IF playing THEN "SOUND_PLAYING"
                                  ELSE soundState_
                /\ (soundState_' = "SOUND_STARTING") => (soundState_ = "SOUND_STARTING")
                /\ started => currentSound_' = audio'.handle
                /\ headModel_ # "none" =>
                       headAction' = IF stopped THEN Prepared("dialog_idle")
                                     ELSE IF started THEN Prepared("dialog_all")
                                     ELSE headAction]_vars

\* the greeting of an angry head plays: it was started in this frame and the
\* poll found it playing
C23_Witness ==
    /\ op = "Realize" /\ speeches = 1 /\ audio.handle # 0 /\ audio.playing
    /\ soundState_ = "SOUND_PLAYING" /\ currentSound_ = audio.handle
    /\ headModel_ = "entity" /\ headAction = <<"dialog_all", "_", "angry">>

====
